---- MODULE Spec2Model ----
(***************************************************************************)
(* ConnectionManager of src/app.py: the registry of admitted connections,  *)
(* the wait queue, the metrics dictionary and the one threading.Lock that  *)
(* start_connection, end_connection and get_metrics take.                  *)
(*                                                                         *)
(* Each caller is a thread.  A thread is idle, or inside start_connection  *)
(* or end_connection; entering `with self.lock` is a step of its own that  *)
(* is enabled only while the lock is free (threading.Lock is not           *)
(* reentrant), and the code executed under the lock is one step up to the  *)
(* next point where the thread can block.                                  *)
(***************************************************************************)
EXTENDS Integers, Sequences, FiniteSets, TLC

\* Bounds of the model.
NumThreads == 2    \* concurrent callers
MaxTokens  == 3    \* start_connection calls made by callers
MaxTime    == 1    \* last value of the clock time.time()
MaxCap     == 2    \* largest max_concurrent the manager is constructed with

Threads  == 1..NumThreads

\* timeout: int = 30, the default argument of start_connection.
DefaultTimeout == 30

\* The timeouts callers pass: none at all, and the default.
Timeouts == {0, DefaultTimeout}

\* queue.Queue() is constructed with no maxsize: 0 means unbounded.
QueueMaxsize == 0

\* The value of self.lock when no thread holds it.
Unlocked == 0

VARIABLES
    max_concurrent,    \* self.max_concurrent
    connections,       \* self.connections: conn_id -> Connection.start_time
    lock,              \* self.lock: Unlocked or the thread that holds it
    connection_queue,  \* self.connection_queue: sequence of conn_ids
    metrics,           \* self.metrics
    now,               \* time.time()
    next_uuid,         \* the next value uuid.uuid4() returns
    pc,                \* per thread: where it is
    timeout,           \* per thread: argument timeout of start_connection
    arg,               \* per thread: argument conn_id of end_connection
    nested,            \* per thread: start_connection was called by end_connection
    expired,           \* history: conn_ids put on the queue with timeout 0 (their
                       \* deadline is the time of the put) before any release
    removed,           \* history: conn_ids deleted by end_connection
    last_ret,          \* history: what the last start_connection to return
                       \* returned, "conn_id" or "None", or that it "raised"
                       \* ("-" before the first)
    last_end,          \* history: what the last end_connection body that ran
                       \* did with its conn_id: "found" it in self.connections,
                       \* or did not, for a conn_id "ended" before or one
                       \* "unknown" ("-" before the first)
    snapshot,          \* the dict get_metrics last returned to a caller that
                       \* keeps it, as a sequence of one (empty before the
                       \* first)
    wrapper,           \* per thread: where it is in require_connection's
                       \* decorated_function ("none": not in it)
    conn_id,           \* per thread: conn_id of decorated_function, 0 for None
    end_calls,         \* history: per conn_id, the end_connection calls that
                       \* decorated_function made with it
    outcome            \* history: per conn_id, how decorated_function's try
                       \* block was left: "returned", "raised" ("-": not yet)

vars == <<max_concurrent, connections, lock, connection_queue, metrics, now,
          next_uuid, pc, timeout, arg, nested,
          expired, removed, last_ret, last_end, snapshot,
          wrapper, conn_id, end_calls, outcome>>

wrap_vars == <<wrapper, conn_id, end_calls, outcome>>

shared == <<connections, connection_queue, metrics>>

----------------------------------------------------------------------------
\* Helpers

RECURSIVE Gcd(_, _)
Gcd(a, b) == IF b = 0 THEN a ELSE Gcd(b, a % b)

\* total_response_time / total_requests, a float in the code: an exact fraction
\* <<numerator, denominator>> in lowest terms here.
Divide(n, d) ==
    LET g == Gcd(n, d) IN <<n \div g, d \div g>>

\* len(self.connections)
len(conns) == Cardinality(DOMAIN conns)

\* del self.connections[conn_id]
Del(conns, id) == [k \in (DOMAIN conns) \ {id} |-> conns[k]]

\* Variant of PutRaisesFull with the fault of a queue constructed with
\* maxsize=1: the put times out once one conn_id waits.
PutRaisesFullBounded(q) == Len(q) >= 1

\* queue.Queue.put(item, timeout=timeout) raises queue.Full only when the queue
\* has a maxsize and holds that many items (after blocking for the timeout).
PutRaisesFull(q) == QueueMaxsize > 0 /\ Len(q) >= QueueMaxsize

\* queue.Queue._put: append on the right of the deque.
put(q, item) == Append(q, item)

\* Variant of get_nowait with the fault of a LIFO queue: pop on the right.
get_nowait_lifo(q) == <<q[Len(q)], SubSeq(q, 1, Len(q) - 1)>>

\* queue.Queue.get_nowait on a non-empty queue: <<item, rest>>, popleft.
get_nowait(q) == <<Head(q), Tail(q)>>

\* _initialize_metrics
InitialMetrics ==
    [total_requests       |-> 0,
     active_connections   |-> 0,
     queued_connections   |-> 0,
     rejected_connections |-> 0,
     avg_response_time    |-> <<0, 1>>,
     total_response_time  |-> 0]

\* Variant of SetActive with the fault of a forgotten assignment.
SetActiveStale(m, conns) == m

\* self.metrics['active_connections'] = len(self.connections)
SetActive(m, conns) == [m EXCEPT !.active_connections = len(conns)]

\* Variant of AddQueued with the fault of a forgotten update.
AddQueuedForgot(m, d) == m

\* self.metrics['queued_connections'] += 1 and -= 1
AddQueued(m, d) == [m EXCEPT !.queued_connections = @ + d]

\* Variant of IncTotalRequests with the fault of a forgotten update.
IncTotalRequestsForgot(m) == m

\* self.metrics['total_requests'] += 1
IncTotalRequests(m) == [m EXCEPT !.total_requests = @ + 1]

\* Variant of RecordCompletion with the fault of taking total_requests for the
\* number of requests in flight and counting it down when one completes.
RecordCompletionCountsDown(m, duration) ==
    LET total == m.total_response_time + duration
    IN  [m EXCEPT !.total_response_time = total,
                  !.avg_response_time = Divide(total, m.total_requests),
                  !.total_requests = @ - 1]

\* self.metrics['total_response_time'] += duration and
\* self.metrics['avg_response_time'] = total_response_time / total_requests
RecordCompletion(m, duration) ==
    LET total == m.total_response_time + duration
    IN  [m EXCEPT !.total_response_time = total,
                  !.avg_response_time = Divide(total, m.total_requests)]

----------------------------------------------------------------------------
Init ==
    /\ max_concurrent \in 1..MaxCap
    /\ connections = <<>>
    /\ lock = Unlocked
    /\ connection_queue = <<>>
    /\ metrics = InitialMetrics
    /\ now = 0
    /\ next_uuid = 1
    /\ pc = [t \in Threads |-> "idle"]
    /\ timeout = [t \in Threads |-> 0]
    /\ arg = [t \in Threads |-> 0]
    /\ nested = [t \in Threads |-> FALSE]
    /\ expired = {}
    /\ removed = {}
    /\ last_ret = "-"
    /\ last_end = "-"
    /\ snapshot = <<>>
    /\ wrapper = [t \in Threads |-> "none"]
    /\ conn_id = [t \in Threads |-> 0]
    /\ end_calls = [tok \in 1..MaxTokens |-> 0]
    /\ outcome = [tok \in 1..MaxTokens |-> "-"]

\* time.time() advances.
Tick ==
    /\ now < MaxTime
    /\ now' = now + 1
    /\ UNCHANGED <<max_concurrent, connections, lock, connection_queue, metrics,
                   next_uuid, pc, timeout, arg, nested,
                   expired, removed, last_ret, last_end, snapshot>>
    /\ UNCHANGED wrap_vars

\* The threads inside a start_connection call that a caller made.
Starting == {t \in Threads : pc[t] \in {"start_lock", "start_body"} /\ ~nested[t]}

\* A caller calls start_connection(timeout) and waits for the lock.  At most
\* MaxTokens such calls are made.
StartCall(t) ==
    /\ pc[t] = "idle"
    /\ wrapper[t] = "none"
    /\ next_uuid + Cardinality(Starting) <= MaxTokens
    /\ \E tm \in Timeouts : timeout' = [timeout EXCEPT ![t] = tm]
    /\ pc' = [pc EXCEPT ![t] = "start_lock"]
    /\ UNCHANGED <<max_concurrent, connections, lock, connection_queue, metrics,
                   now, next_uuid, arg, nested,
                   expired, removed, last_ret, last_end, snapshot>>
    /\ UNCHANGED wrap_vars

\* `with self.lock:` of start_connection.
StartLock(t) ==
    /\ pc[t] = "start_lock"
    /\ lock = Unlocked
    /\ lock' = t
    /\ pc' = [pc EXCEPT ![t] = "start_body"]
    /\ UNCHANGED <<max_concurrent, connections, connection_queue, metrics, now,
                   next_uuid, timeout, arg, nested,
                   expired, removed, last_ret, last_end, snapshot>>
    /\ UNCHANGED wrap_vars

\* The body of start_connection under the lock, to its return.  conn_id is the
\* uuid4 the call drew before it took the lock: a fresh value that nothing
\* reads before this step and that is only ever compared for equality, so it
\* is numbered here, in the order the values are first stored.
StartBody(t) ==
    /\ pc[t] = "start_body"
    /\ LET id     == next_uuid
           full   == len(connections) >= max_concurrent
           q1     == IF full THEN put(connection_queue, id) ELSE connection_queue
           m1     == IF full THEN AddQueued(metrics, 1) ELSE metrics
           conns1 == (id :> now) @@ connections
           m2     == IncTotalRequests(m1)
       IN  IF full /\ PutRaisesFull(connection_queue)
           THEN /\ metrics' = [metrics EXCEPT !.rejected_connections = @ + 1]
                /\ last_ret' = "None"
                /\ UNCHANGED <<connections, connection_queue, expired>>
           ELSE /\ connection_queue' = q1
                /\ connections' = conns1
                /\ metrics' = SetActive(m2, conns1)
                /\ last_ret' = "conn_id"
                /\ expired' = IF full /\ timeout[t] = 0 /\ removed = {}
                              THEN expired \cup {id}
                              ELSE expired
    \* Leaving `with self.lock` releases the lock and the call returns.  (A
    \* nested call would return into end_connection, but it never gets here:
    \* the thread that waits for the lock is the one that holds it.)
    /\ lock' = Unlocked
    /\ nested' = [nested EXCEPT ![t] = FALSE]
    /\ pc' = [pc EXCEPT ![t] = "idle"]
    /\ timeout' = [timeout EXCEPT ![t] = 0]
    /\ arg' = [arg EXCEPT ![t] = 0]
    /\ next_uuid' = next_uuid + 1
    \* conn_id = app.connection_manager.start_connection() of decorated_function
    /\ conn_id' = IF wrapper[t] = "start"
                  THEN [conn_id EXCEPT ![t] =
                           IF len(connections) >= max_concurrent
                              /\ PutRaisesFull(connection_queue)
                           THEN 0 ELSE next_uuid]
                  ELSE conn_id
    /\ UNCHANGED <<max_concurrent, now, removed, last_end, snapshot,
                   wrapper, end_calls, outcome>>

\* A caller calls end_connection(conn_id) with a token that was handed out
\* before, or with one that never was (0), and waits for the lock.
EndCall(t) ==
    /\ pc[t] = "idle"
    /\ wrapper[t] = "none"
    /\ \E tok \in 0..(next_uuid - 1) : arg' = [arg EXCEPT ![t] = tok]
    /\ pc' = [pc EXCEPT ![t] = "end_lock"]
    /\ UNCHANGED <<max_concurrent, connections, lock, connection_queue, metrics,
                   now, next_uuid, timeout, nested,
                   expired, removed, last_ret, last_end, snapshot>>
    /\ UNCHANGED wrap_vars

\* `with self.lock:` of end_connection.
EndLock(t) ==
    /\ pc[t] = "end_lock"
    /\ lock = Unlocked
    /\ lock' = t
    /\ pc' = [pc EXCEPT ![t] = "end_body"]
    /\ UNCHANGED <<max_concurrent, connections, connection_queue, metrics, now,
                   next_uuid, timeout, arg, nested,
                   expired, removed, last_ret, last_end, snapshot>>
    /\ UNCHANGED wrap_vars

\* Variant of EndUnregistered with the fault of a queue processing that is not
\* under the `if`: a queued conn_id is taken whatever conn_id is ended.
EndUnregisteredDequeues(t) ==
    /\ connection_queue' = IF connection_queue = <<>> THEN <<>> ELSE Tail(connection_queue)
    /\ metrics' = IF connection_queue = <<>>
                  THEN metrics
                  ELSE [metrics EXCEPT !.queued_connections = @ - 1]
    /\ lock' = Unlocked
    /\ pc' = [pc EXCEPT ![t] = "idle"]
    /\ arg' = [arg EXCEPT ![t] = 0]
    /\ UNCHANGED <<connections, next_uuid, timeout, nested, removed>>

\* end_connection when conn_id is not in self.connections: the `if` is false,
\* the `with` block ends and the call returns None.
EndUnregistered(t) ==
    /\ lock' = Unlocked
    /\ pc' = [pc EXCEPT ![t] = "idle"]
    /\ arg' = [arg EXCEPT ![t] = 0]
    /\ UNCHANGED <<connections, connection_queue, metrics, next_uuid,
                   timeout, nested, removed>>

\* end_connection when conn_id is in self.connections: the duration is added,
\* the average recomputed, the connection deleted.  With the queue empty the
\* call sets active_connections and returns; otherwise it takes the oldest
\* queued conn_id and calls self.start_connection(queued_conn_id) while it
\* still holds the lock: the nested call takes the queued conn_id as its
\* timeout and waits for the lock.
EndRegistered(t) ==
    LET id       == arg[t]
        duration == now - connections[id]
        m1       == RecordCompletion(metrics, duration)
        conns1   == Del(connections, id)
        got      == get_nowait(connection_queue)
    IN  /\ connections' = conns1
        /\ removed' = removed \cup {id}
        /\ IF connection_queue = <<>>
           THEN /\ metrics' = SetActive(m1, conns1)
                /\ lock' = Unlocked
                /\ pc' = [pc EXCEPT ![t] = "idle"]
                /\ arg' = [arg EXCEPT ![t] = 0]
                /\ UNCHANGED <<connection_queue, next_uuid, timeout, nested>>
           ELSE /\ connection_queue' = got[2]
                /\ metrics' = AddQueued(m1, -1)
                /\ timeout' = [timeout EXCEPT ![t] = got[1]]
                /\ nested' = [nested EXCEPT ![t] = TRUE]
                /\ pc' = [pc EXCEPT ![t] = "start_lock"]
                /\ UNCHANGED <<lock, arg, next_uuid>>

\* The body of end_connection under the lock.
EndBody(t) ==
    /\ pc[t] = "end_body"
    /\ IF arg[t] \in DOMAIN connections
       THEN EndRegistered(t)
       ELSE EndUnregistered(t)
    /\ last_end' = IF arg[t] \in DOMAIN connections THEN "found"
                    ELSE IF arg[t] \in removed THEN "ended"
                    ELSE "unknown"
    /\ UNCHANGED <<max_concurrent, now, expired, last_ret, snapshot>>
    /\ UNCHANGED wrap_vars

\* Variant of MetricsLock with the fault of a get_metrics that, like
\* get_connection, reads without the lock.
MetricsLockNotTaken(t) ==
    /\ pc[t] = "idle"
    /\ wrapper[t] = "none"
    /\ pc' = [pc EXCEPT ![t] = "metrics_body"]
    /\ UNCHANGED <<max_concurrent, connections, lock, connection_queue, metrics,
                   now, next_uuid, timeout, arg, nested,
                   expired, removed, last_ret, last_end, snapshot>>
    /\ UNCHANGED wrap_vars

\* A caller calls get_metrics and enters `with self.lock:`.  The call has no
\* argument and touches nothing before the lock, so the call and the wait for
\* the lock are one step, taken when the lock is free.
MetricsLock(t) ==
    /\ pc[t] = "idle"
    /\ wrapper[t] = "none"
    /\ lock = Unlocked
    /\ lock' = t
    /\ pc' = [pc EXCEPT ![t] = "metrics_body"]
    /\ UNCHANGED <<max_concurrent, connections, connection_queue, metrics, now,
                   next_uuid, timeout, arg, nested,
                   expired, removed, last_ret, last_end, snapshot>>
    /\ UNCHANGED wrap_vars

\* return dict(self.metrics), leaving `with self.lock`, to the /metrics route,
\* which sends the dict to its client and keeps nothing.
MetricsBody(t) ==
    /\ pc[t] = "metrics_body"
    /\ lock' = Unlocked
    /\ pc' = [pc EXCEPT ![t] = "idle"]
    /\ UNCHANGED <<max_concurrent, connections, connection_queue, metrics, now,
                   next_uuid, timeout, arg, nested,
                   expired, removed, last_ret, last_end, snapshot>>
    /\ UNCHANGED wrap_vars

\* return dict(self.metrics), leaving `with self.lock`, to a caller that keeps
\* the dict it gets.
MetricsBodyObserved(t) ==
    /\ pc[t] = "metrics_body"
    /\ snapshot' = <<metrics>>
    /\ lock' = Unlocked
    /\ pc' = [pc EXCEPT ![t] = "idle"]
    /\ UNCHANGED <<max_concurrent, connections, connection_queue, metrics, now,
                   next_uuid, timeout, arg, nested,
                   expired, removed, last_ret, last_end>>
    /\ UNCHANGED wrap_vars

Next ==
    \/ Tick
    \/ \E t \in Threads : StartCall(t)
    \/ \E t \in Threads : StartLock(t)
    \/ \E t \in Threads : StartBody(t)
    \/ \E t \in Threads : EndCall(t)
    \/ \E t \in Threads : EndLock(t)
    \/ \E t \in Threads : EndBody(t)
    \/ \E t \in Threads : MetricsLock(t)
    \/ \E t \in Threads : MetricsBody(t)

Spec == Init /\ [][Next]_vars

\* The scheduler runs every thread that can run, and a thread that waits for a
\* lock that is free again and again gets it.
Fairness ==
    \A t \in Threads :
        /\ SF_vars(StartLock(t))
        /\ SF_vars(EndLock(t))
        /\ WF_vars(StartBody(t))
        /\ WF_vars(EndBody(t))
        /\ WF_vars(MetricsBody(t))

FairSpec == Spec /\ Fairness

\* The manager with callers of get_metrics that keep what it returns.
SnapshotNext ==
    \/ Next
    \/ \E t \in Threads : MetricsBodyObserved(t)

SnapshotSpec == Init /\ [][SnapshotNext]_vars

----------------------------------------------------------------------------
\* A failure inside start_connection

\* The body of start_connection under the lock when building the Connection
\* raises (request.remote_addr, request.headers, ... read outside a request, or
\* no memory): on a full registry the put and the queued_connections update
\* are done by then; the exception leaves `with self.lock`, which releases the
\* lock, and leaves the call, and decorated_function before its try.
StartFault(t) ==
    /\ pc[t] = "start_body"
    /\ LET id   == next_uuid
           full == len(connections) >= max_concurrent
       IN  /\ ~(full /\ PutRaisesFull(connection_queue))
           /\ connection_queue' = IF full THEN put(connection_queue, id)
                                          ELSE connection_queue
           /\ metrics' = IF full THEN AddQueued(metrics, 1) ELSE metrics
           /\ expired' = IF full /\ timeout[t] = 0 /\ removed = {}
                         THEN expired \cup {id}
                         ELSE expired
    /\ last_ret' = "raised"
    /\ lock' = Unlocked
    /\ nested' = [nested EXCEPT ![t] = FALSE]
    /\ pc' = [pc EXCEPT ![t] = "idle"]
    /\ timeout' = [timeout EXCEPT ![t] = 0]
    /\ arg' = [arg EXCEPT ![t] = 0]
    /\ next_uuid' = next_uuid + 1
    /\ wrapper' = [wrapper EXCEPT ![t] = "none"]
    /\ UNCHANGED <<max_concurrent, connections, now, removed, last_end,
                   snapshot, conn_id, end_calls, outcome>>

\* The manager with Connection constructions that can fail.
FaultNext ==
    \/ Next
    \/ \E t \in Threads : StartFault(t)

FaultSpec == Init /\ [][FaultNext]_vars

----------------------------------------------------------------------------
\* require_connection: decorated_function around a handler f

\* A request arrives at a decorated route: decorated_function calls
\* start_connection() with the default timeout and waits for the lock.
WrapCall(t) ==
    /\ pc[t] = "idle"
    /\ wrapper[t] = "none"
    /\ next_uuid + Cardinality(Starting) <= MaxTokens
    /\ wrapper' = [wrapper EXCEPT ![t] = "start"]
    /\ timeout' = [timeout EXCEPT ![t] = DefaultTimeout]
    /\ pc' = [pc EXCEPT ![t] = "start_lock"]
    /\ UNCHANGED <<max_concurrent, connections, lock, connection_queue, metrics,
                   now, next_uuid, arg, nested,
                   expired, removed, last_ret, last_end, snapshot,
                   conn_id, end_calls, outcome>>

\* How the try block can be left.  get_connection(conn_id) reads
\* self.connections without the lock and is None when the conn_id is not
\* registered (any more): `.request_id` then raises and f is not called.
\* Otherwise f runs, and returns or raises.
TryOutcomes(t) ==
    IF conn_id[t] \in DOMAIN connections
    THEN {"returned", "raised"}
    ELSE {"raised"}

\* Variant of WrapTry with the fault of a release that is not in a `finally`:
\* when the try block raises, the exception leaves decorated_function at once.
WrapTryRaiseEscapes(t) ==
    /\ pc[t] = "idle"
    /\ wrapper[t] = "start"
    /\ conn_id[t] # 0
    /\ \E o \in TryOutcomes(t) :
           /\ outcome' = [outcome EXCEPT ![conn_id[t]] = o]
           /\ wrapper' = [wrapper EXCEPT ![t] =
                              IF o = "raised" THEN "none" ELSE "finally"]
           /\ conn_id' = [conn_id EXCEPT ![t] = IF o = "raised" THEN 0 ELSE @]
    /\ UNCHANGED <<max_concurrent, connections, lock, connection_queue, metrics,
                   now, next_uuid, pc, timeout, arg, nested,
                   expired, removed, last_ret, last_end, snapshot, end_calls>>

\* start_connection has returned.  `if not conn_id`: the 503 answer is returned
\* and decorated_function is over.  Otherwise the try block runs to its end.
WrapTry(t) ==
    /\ pc[t] = "idle"
    /\ wrapper[t] = "start"
    /\ IF conn_id[t] = 0
       THEN /\ wrapper' = [wrapper EXCEPT ![t] = "none"]
            /\ UNCHANGED outcome
       ELSE /\ \E o \in TryOutcomes(t) :
                   outcome' = [outcome EXCEPT ![conn_id[t]] = o]
            /\ wrapper' = [wrapper EXCEPT ![t] = "finally"]
    /\ UNCHANGED <<max_concurrent, connections, lock, connection_queue, metrics,
                   now, next_uuid, pc, timeout, arg, nested,
                   expired, removed, last_ret, last_end, snapshot,
                   conn_id, end_calls>>

\* finally: app.connection_manager.end_connection(conn_id) is called and waits
\* for the lock.
WrapFinally(t) ==
    /\ pc[t] = "idle"
    /\ wrapper[t] = "finally"
    /\ arg' = [arg EXCEPT ![t] = conn_id[t]]
    /\ pc' = [pc EXCEPT ![t] = "end_lock"]
    /\ end_calls' = [end_calls EXCEPT ![conn_id[t]] = @ + 1]
    /\ wrapper' = [wrapper EXCEPT ![t] = "end"]
    /\ UNCHANGED <<max_concurrent, connections, lock, connection_queue, metrics,
                   now, next_uuid, timeout, nested,
                   expired, removed, last_ret, last_end, snapshot,
                   conn_id, outcome>>

\* end_connection has returned: decorated_function returns what f returned, or
\* the exception goes on.
WrapReturn(t) ==
    /\ pc[t] = "idle"
    /\ wrapper[t] = "end"
    /\ wrapper' = [wrapper EXCEPT ![t] = "none"]
    /\ conn_id' = [conn_id EXCEPT ![t] = 0]
    /\ UNCHANGED <<max_concurrent, connections, lock, connection_queue, metrics,
                   now, next_uuid, pc, timeout, arg, nested,
                   expired, removed, last_ret, last_end, snapshot,
                   end_calls, outcome>>

\* The manager as the application uses it: every start_connection and
\* end_connection call is made by decorated_function, and get_metrics by the
\* /metrics route.
WrapNext ==
    \/ Tick
    \/ \E t \in Threads : StartLock(t)
    \/ \E t \in Threads : StartBody(t)
    \/ \E t \in Threads : EndLock(t)
    \/ \E t \in Threads : EndBody(t)
    \/ \E t \in Threads : MetricsLock(t)
    \/ \E t \in Threads : MetricsBody(t)
    \/ \E t \in Threads : WrapCall(t)
    \/ \E t \in Threads : WrapTry(t)
    \/ \E t \in Threads : WrapFinally(t)
    \/ \E t \in Threads : WrapReturn(t)

WrapSpec == Init /\ [][WrapNext]_vars

----------------------------------------------------------------------------
\* Claims

Range(q) == {q[i] : i \in 1..Len(q)}

\* Thread t is in a start_connection call a caller made (not the one
\* end_connection makes).
InStart(t) == pc[t] \in {"start_lock", "start_body"} /\ ~nested[t]

\* Thread t is in an end_connection call, the call it makes to
\* start_connection included.
InEnd(t) == pc[t] \in {"end_lock", "end_body"} \/ nested[t]

Quiescent == \A t \in Threads : pc[t] = "idle"

\* C1: in every reachable state len(connections) and the metric
\* active_connections are at most max_concurrent.
C1_CapacityBound ==
    /\ len(connections) <= max_concurrent
    /\ metrics.active_connections <= max_concurrent

\* C2: every end_connection call returns, provided every other thread that
\* holds the lock leaves it again.
C2_EndReturns ==
    \A t \in Threads :
        ([]<>(lock \in {Unlocked, t})) => (InEnd(t) ~> (pc[t] = "idle"))

\* C3: start_connection called with timeout 0 on a full registry returns None,
\* adds 1 to rejected_connections and leaves the queue, queued_connections
\* and the registry as they were.
C3_ZeroTimeoutRejects ==
    [][\A t \in Threads :
          (/\ pc[t] = "start_body"
           /\ pc'[t] # "start_body"
           /\ ~nested[t]
           /\ timeout[t] = 0
           /\ len(connections) >= max_concurrent)
          => (/\ last_ret' = "None"
              /\ metrics'.rejected_connections = metrics.rejected_connections + 1
              /\ metrics'.queued_connections = metrics.queued_connections
              /\ connection_queue' = connection_queue
              /\ connections' = connections)]_vars

\* C4: end_connection on a conn_id that is not in the registry (one that was
\* never handed out, or one already ended) returns and leaves the registry,
\* the queue and every metric unchanged.
C4_UnregisteredEndNoOp ==
    [][\A t \in Threads :
          (/\ pc[t] = "end_body"
           /\ pc'[t] # "end_body"
           /\ (arg[t] \notin DOMAIN connections \/ arg[t] \in removed))
          => (/\ pc'[t] = "idle"
              /\ UNCHANGED shared)]_vars

\* C4 witness: the last end_connection body ran on a conn_id that an earlier
\* end_connection had deleted, while a conn_id was queued and others were
\* registered, and the call has returned.
C4_Witness ==
    /\ Quiescent
    /\ last_end = "ended"
    /\ connection_queue # <<>>
    /\ connections # <<>>

\* C5: end_connection that deletes a registered conn_id while the queue is
\* non-empty completes without going through start_connection again; then the
\* ended conn_id is gone, every other registered conn_id is still registered,
\* the oldest queued conn_id is registered and active_connections is what it
\* was before the call.
C5_DirectHandOff ==
    [][\A t \in Threads :
          (/\ pc[t] = "end_body"
           /\ pc'[t] # "end_body"
           /\ arg[t] \in DOMAIN connections
           /\ connection_queue # <<>>)
          => (/\ pc'[t] = "idle"
              /\ arg[t] \notin DOMAIN connections'
              /\ (DOMAIN connections) \ {arg[t]} \subseteq DOMAIN connections'
              /\ Head(connection_queue) \in DOMAIN connections'
              /\ metrics'.active_connections = metrics.active_connections)]_vars

\* C6: no conn_id is in the registry and in the queue at the same time.
C6_RegistryQueueDisjoint ==
    Range(connection_queue) \cap DOMAIN connections = {}

\* C7: every start_connection call a caller makes returns.
C7_StartReturns ==
    \A t \in Threads : InStart(t) ~> (pc[t] = "idle")

\* C8: the queue changes only by a put at its back or by end_connection taking
\* its front, and the conn_id taken is the one end_connection promotes (hands
\* to start_connection): conn_ids leave the queue in the order they entered.
C8_FifoPromotion ==
    [][connection_queue' # connection_queue
       => \/ /\ Len(connection_queue') = Len(connection_queue) + 1
             /\ SubSeq(connection_queue', 1, Len(connection_queue)) = connection_queue
          \/ /\ connection_queue # <<>>
             /\ connection_queue' = Tail(connection_queue)
             /\ \E t \in Threads :
                   /\ ~nested[t]
                   /\ nested'[t]
                   /\ timeout'[t] = Head(connection_queue)]_vars

\* C8 witness: an end_connection has taken a conn_id from a queue that held at
\* least two, and the conn_id it took was put before the one still queued.
C8_Witness ==
    \E t \in Threads :
        /\ nested[t]
        /\ connection_queue # <<>>
        /\ timeout[t] \in DOMAIN connections
        /\ Head(connection_queue) \in DOMAIN connections
        /\ connections[timeout[t]] < connections[Head(connection_queue)]

\* C9: a conn_id queued with a deadline that passed before any end_connection
\* deleted a connection is not granted and is off the queue, and no
\* end_connection promotes it.
C9_ExpiredWaiterGone ==
    /\ \A id \in expired :
          /\ id \notin Range(connection_queue)
          /\ id \notin DOMAIN connections
    /\ \A t \in Threads : nested[t] => timeout[t] \notin expired

\* C10: when no start_connection or end_connection call is in progress,
\* active_connections is len(connections).
C10_ActiveIsRegistrySize ==
    Quiescent => metrics.active_connections = len(connections)

\* C10 witness: no call in progress after connections were admitted and one of
\* them ended, with a connection still registered.
C10_Witness ==
    /\ Quiescent
    /\ removed # {}
    /\ len(connections) >= 1
    /\ metrics.active_connections = len(connections)

\* C11: whenever the lock is free, queued_connections is the number of conn_ids
\* on the queue, and it is never negative.
C11_QueuedIsQueueLength ==
    /\ metrics.queued_connections >= 0
    /\ lock = Unlocked => metrics.queued_connections = Len(connection_queue)

\* C11 witness: the lock is free, no call is in progress and two callers that
\* arrived at a full registry have been queued.
C11_Witness ==
    /\ lock = Unlocked
    /\ Quiescent
    /\ Len(connection_queue) = 2
    /\ metrics.queued_connections = 2

InCritical(t) ==
    \/ pc[t] \in {"start_body", "end_body", "metrics_body"}
    \/ nested[t]

\* C13: at most one caller is inside a critical section at a time, and the
\* metrics get_metrics copies are never those of a half-applied start_connection
\* or end_connection: active_connections, queued_connections and total_requests
\* all match the registry and the queue at the copy.
C13_MutualExclusion ==
    /\ \A t \in Threads : InCritical(t) => lock = t
    /\ \A t, u \in Threads : InCritical(t) /\ InCritical(u) => t = u
    /\ \A t \in Threads :
           pc[t] = "metrics_body" =>
               /\ \A u \in Threads \ {t} : ~InCritical(u)
               /\ metrics.active_connections = len(connections)
               /\ metrics.queued_connections = Len(connection_queue)
               /\ metrics.total_requests =
                      len(connections) + Cardinality(removed)

C13_Witness ==
    \E t, u \in Threads :
        /\ pc[t] = "metrics_body"
        /\ pc[u] \in {"start_lock", "end_lock"}
        /\ metrics.total_response_time > 0
        /\ connection_queue # <<>>

\* C14: for every request through decorated_function that got a conn_id,
\* end_connection is called with that conn_id exactly once, after the try block
\* (the handler) is over, whether it returned or raised; with no conn_id the
\* handler is not run and end_connection is not called.
C14_ReleaseOncePerToken ==
    /\ \A tok \in 1..MaxTokens :
           LET pending == \E t \in Threads :
                              wrapper[t] = "finally" /\ conn_id[t] = tok
           IN  /\ end_calls[tok] <= 1
               /\ end_calls[tok] = 1 => outcome[tok] # "-"
               /\ outcome[tok] # "-" =>
                      end_calls[tok] = IF pending THEN 0 ELSE 1
    /\ \A t \in Threads :
           /\ wrapper[t] \in {"finally", "end"} => conn_id[t] # 0
           /\ wrapper[t] = "end" /\ pc[t] \in {"end_lock", "end_body"} =>
                  arg[t] = conn_id[t]
           /\ wrapper[t] = "none" => conn_id[t] = 0

C14_Witness ==
    /\ \A t \in Threads : wrapper[t] = "none"
    /\ \E a, b \in 1..MaxTokens :
           /\ outcome[a] = "returned" /\ end_calls[a] = 1
           /\ outcome[b] = "raised" /\ end_calls[b] = 1
           /\ {a, b} \subseteq removed

\* C15: no step lowers total_requests or rejected_connections.
C15_CountersMonotone ==
    [][/\ metrics'.total_requests >= metrics.total_requests
       /\ metrics'.rejected_connections >= metrics.rejected_connections]_vars

C15_Witness ==
    /\ \E t \in Threads : pc[t] = "metrics_body"
    /\ metrics.total_requests >= 2
    /\ metrics.total_response_time > 0
    /\ removed # {}

\* C16: when building the Connection raises inside start_connection, the
\* registry, the queue and every metric are as they were before the call, and
\* the lock is released.
C16_FaultLeavesNoTrace ==
    [][\A t \in Threads :
          (/\ pc[t] = "start_body"
           /\ pc'[t] = "idle"
           /\ last_ret' = "raised")
          => (/\ UNCHANGED shared
              /\ lock' = Unlocked)]_vars

\* C17: start_connection never returns None and rejected_connections stays 0;
\* a call that finds the registry full puts its conn_id on the queue and
\* registers it before it returns.
C17_NeverRejects ==
    /\ [](last_ret # "None" /\ metrics.rejected_connections = 0)
    /\ [][\A t \in Threads :
             (/\ pc[t] = "start_body"
              /\ pc'[t] # "start_body"
              /\ len(connections) >= max_concurrent)
             => (/\ pc'[t] = "idle"
                 /\ last_ret' = "conn_id"
                 /\ connection_queue' = Append(connection_queue, next_uuid)
                 /\ DOMAIN connections' = DOMAIN connections \cup {next_uuid})]_vars

C17_Witness ==
    /\ Quiescent
    /\ last_ret = "conn_id"
    /\ Len(connection_queue) = 2
    /\ Range(connection_queue) \subseteq DOMAIN connections
    /\ expired # {}
    /\ expired # Range(connection_queue)

\* C18: whenever no call is in progress, total_requests is the number of
\* registered conn_ids plus the number of conn_ids end_connection deleted;
\* every admission adds exactly 1, and a conn_id leaves the registry only in
\* the end_connection call made with it.
C18_AdmissionsCounted ==
    /\ [](Quiescent =>
             metrics.total_requests = len(connections) + Cardinality(removed))
    /\ [][/\ \A id \in DOMAIN connections' \ DOMAIN connections :
                 metrics'.total_requests = metrics.total_requests + 1
          /\ DOMAIN connections' = DOMAIN connections =>
                 metrics'.total_requests = metrics.total_requests
          /\ \A id \in DOMAIN connections \ DOMAIN connections' :
                 /\ \E t \in Threads : pc[t] = "end_body" /\ arg[t] = id
                 /\ removed' = removed \cup {id}
                 /\ id \notin removed]_vars

C18_Witness ==
    /\ Quiescent
    /\ Cardinality(removed) = 2
    /\ len(connections) = 1
    /\ metrics.total_requests = 3

====
